---- MODULE Spec2Model ----
(***************************************************************************)
(* Model of the mongo-perf-lab read strategies (read_bad, read_v1..v5) and *)
(* of the parallel chunked aggregation of read_v4: the coordinator (main), *)
(* its worker goroutines, the WaitGroup barrier and the atomic total.      *)
(***************************************************************************)
EXTENDS Integers, Sequences, FiniteSets, TLC

\* ------------------------------------------------------------------ bounds
ScenarioSteps == 24
MaxWorkers == 2
MaxChunk == 2
MaxDocs == 5
MaxOther == 1
WordBits == 4

\* ------------------------------------------------- program constants (v4)
NumWorkersV4 == 10
ChunkSizeV4 == 100000

Workers == 0..(MaxWorkers - 1)

\* goroutines and the objects they touch, as named in `access`
MainActor == <<"main">>
WorkerActor(w) == <<"worker", w>>

SingleStrategies == {"read_bad", "read_v1", "read_v2", "read_v3", "read_v5"}
Strategies == SingleStrategies \cup {"read_v4"}

VARIABLES
  store,          \* the collection: how many documents have status PAID / another status
  strategy,       \* which program runs
  numWorkers,     \* read_v4: numWorkers
  chunkSize,      \* read_v4: chunkSize
  pc,             \* position of main
  totalCount,     \* read_v4: result of CountDocuments
  explainResult,  \* "nil" | "noStats" | "stats": the decoded explain document
  events,         \* what main and the workers have done so far (requests, samples, reports)
  spawned,        \* read_v4: loop index i of the dispatch loop
  wg,             \* read_v4: sync.WaitGroup counter
  totalRead,      \* read_v4: the atomic accumulator
  wpc,            \* position of each worker goroutine
  mcursor,        \* the cursor main opens (single-threaded strategies)
  cursor,         \* the cursor each worker opens
  localCount,     \* each worker's localCount
  decodeErrs,     \* per worker: cursor positions whose Decode failed
  recordCount,    \* main: recordCount (len(results) in read_bad)
  recordsRead,    \* the record count main reports
  metrics,        \* the QueryMetrics handed to PrintMetrics, <<>> if none
  logged,         \* warning / completion lines written through the logger
  access,         \* <<actor, object, kind>>: which goroutine touched which object, and how
  prevRead,       \* {} or {records read by the last run that ended without a warning}
  sc,             \* SpecScenario: the workers of read_v4 run one after the other
  an,             \* SpecAnalyzer: an explain document on its way through the analyzer
  requests,       \* how many times each request has been sent to the store
  mem             \* SpecMemory: the two memory samples and the delta computed from them

vars == <<store, strategy, numWorkers, chunkSize, pc, totalCount, explainResult,
          events, spawned, wg, totalRead, wpc, mcursor, cursor, localCount, decodeErrs,
          recordCount, recordsRead, metrics, logged, access, prevRead, sc,
          an, requests, mem>>

runVars == <<pc, totalCount, explainResult, events, spawned, wg, totalRead, wpc,
             mcursor, cursor, localCount, decodeErrs, recordCount, recordsRead, metrics,
             logged, access, requests>>

workerVars == <<wg, totalRead, wpc, cursor, localCount, decodeErrs>>

confVars == <<strategy, numWorkers, chunkSize, prevRead, sc, an, mem>>

\* ---------------------------------------------------------------- helpers
Min(a, b) == IF a <= b THEN a ELSE b
Max(a, b) == IF a >= b THEN a ELSE b

RECURSIVE SumOver(_, _)
RECURSIVE Pow2(_)
SumOver(S, f) ==
  IF S = {} THEN 0
  ELSE LET x == CHOOSE y \in S : TRUE IN f[x] + SumOver(S \ {x}, f)

\* ------------------------------------------------------------- the store
\* count(filter): bson.M{} matches every document, {"status": "PAID"} the paid ones
CountMatching(st, filter) ==
  IF filter = "all" THEN st.paid + st.other ELSE st.paid

\* the filter each strategy reads with
FilterOf(s) ==
  IF s \in {"read_bad", "read_v1", "read_v2"} THEN "all" ELSE "paid"

\* faulty variant: only chunks that are full are returned
AggregateDocsFullOnly(matching, skip, limit) ==
  IF matching - skip >= limit THEN limit ELSE 0

\* faulty variant: the $skip stage is missing
AggregateDocsNoSkip(matching, skip, limit) ==
  Min(limit, matching)

\* faulty variant: the $limit stage is missing
AggregateDocsNoLimit(matching, skip, limit) ==
  Max(0, matching - skip)

\* documents produced by [$match, $skip skip, $limit limit, $project] over
\* `matching` matching documents
AggregateDocs(matching, skip, limit) ==
  Max(0, Min(limit, matching - skip))

\* faulty variant: an aggregation consumes a document it returns
StoreAfterConsume(st, request) ==
  IF request = "aggregate" /\ st.paid > 0 THEN [st EXCEPT !.paid = @ - 1] ELSE st

\* what a request leaves of the collection: explain, count, find and aggregate
\* are reads
StoreAfter(st, request) == st

\* the requests a run can send: the count and the explain command, the read of
\* a single-threaded program, the aggregation of worker w
CountRequest == <<"count">>
ExplainRequest == <<"explain">>
ReadRequest == <<"read">>
ChunkRequest(w) == <<"aggregate", w>>
Requests == {CountRequest, ExplainRequest, ReadRequest}
              \cup {ChunkRequest(w) : w \in Workers}
NoRequests == [r \in Requests |-> 0]
Issue(sent, r) == [sent EXCEPT ![r] = @ + 1]

NoCursor == [state |-> "none", len |-> 0, pos |-> 0, err |-> FALSE]
NoScenario == [worker |-> 0, counts |-> <<>>, sum |-> 0, phase |-> "off"]

\* ------------------------------------------------------- the memory delta
\* MemStats.Alloc is a uint64; the model keeps the arithmetic, on words of
\* WordBits bits
Pow2(n) == IF n = 0 THEN 1 ELSE 2 * Pow2(n - 1)
Uint64 == 0..(Pow2(WordBits) - 1)

\* a - b on unsigned words: wraps modulo 2^WordBits
Uint64Sub(a, b) == (a - b + Pow2(WordBits)) % Pow2(WordBits)

\* int64(u): the same bits read as a signed word
Int64(u) == IF u >= Pow2(WordBits - 1) THEN u - Pow2(WordBits) ELSE u

\* faulty variant: a negative difference is reported as 0
MemoryUsedClamped(after, before) == IF after < before THEN 0 ELSE after - before

\* memoryUsed := int64(memAfter.Alloc - memBefore.Alloc)
MemoryUsed(after, before) == Int64(Uint64Sub(after, before))

NoMemory == [phase |-> "off", before |-> 0, after |-> 0, memoryUsed |-> 0,
             reported |-> {}]

\* --------------------------------------------------- the explain document
\* thresholds of the analyzer
SlowMs == 100
OverFactor == 2
LowEfficiency == 50

\* a value of the decoded document (map[string]interface{}): its dynamic Go
\* type and its number; "absent" is a key the map does not hold
Absent == [type |-> "absent", val |-> 0]
IntTypes == {"int32", "int64"}
StatValues(vals) ==
  {Absent, [type |-> "string", val |-> 0]}
    \cup {[type |-> t, val |-> v] : t \in IntTypes, v \in vals}

TimeValues == {SlowMs - 50, SlowMs, SlowMs + 1, SlowMs + 50}
ExaminedValues == {0, 10, 20, 21, 100}
ReturnedValues == {0, 10, 50}
KeysValues == {5}

NoStats(type) ==
  [type |-> type, executionTimeMillis |-> Absent, totalDocsExamined |-> Absent,
   totalKeysExamined |-> Absent, nReturned |-> Absent]

\* the executionStats value: absent, of another type, or a map of statistics
StatsSections ==
  {NoStats("absent"), NoStats("other")}
    \cup [type : {"map"},
          executionTimeMillis : StatValues(TimeValues),
          totalDocsExamined : StatValues(ExaminedValues),
          totalKeysExamined :
            {Absent} \cup {[type |-> t, val |-> v] : t \in IntTypes, v \in KeysValues},
          nReturned : StatValues(ReturnedValues)]

NoStage == [type |-> "absent", val |-> ""]
StageNames == {"COLLSCAN", "IXSCAN", "FETCH", "collscan", "PROJECTION_SIMPLE"}
StageValues ==
  {NoStage, [type |-> "other", val |-> ""]}
    \cup {[type |-> "string", val |-> n] : n \in StageNames}

NoWinningPlan(type) == [type |-> type, stage |-> NoStage, inputStage |-> ""]

\* the winningPlan value; inputStage is the stage of the plan nested in it
WinningPlans ==
  {NoWinningPlan("absent"), NoWinningPlan("other")}
    \cup [type : {"map"}, stage : StageValues, inputStage : {"", "COLLSCAN"}]

\* the queryPlanner value
QueryPlanners ==
  {[type |-> "absent", winningPlan |-> NoWinningPlan("absent")],
   [type |-> "other", winningPlan |-> NoWinningPlan("absent")]}
    \cup [type : {"map"}, winningPlan : WinningPlans]

Documents == [executionStats : StatsSections, queryPlanner : QueryPlanners]

\* faulty variant: an assertion to int64 takes any integer type
TypeAssertAnyInt(v, ty) ==
  [ok |-> v.type = ty \/ (ty = "int64" /\ v.type \in IntTypes), panic |-> FALSE]

\* faulty variant: v := x.(T), which panics on another type
TypeAssertMust(v, ty) == [ok |-> v.type = ty, panic |-> v.type # ty]

\* v, ok := x.(T): ok exactly for a value of dynamic type T, never a panic
TypeAssert(v, ty) == [ok |-> v.type = ty, panic |-> FALSE]

\* faulty variant: the stage name is compared ignoring case
StageMessageFold(stage) ==
  IF stage \in {"COLLSCAN", "collscan"} THEN {"collscan"}
  ELSE IF stage = "IXSCAN" THEN {"ixscan"}
  ELSE IF stage = "FETCH" THEN {"fetch"}
  ELSE {}

\* the message PrintExplainResults writes for a stage name
StageMessage(stage) ==
  IF stage = "COLLSCAN" THEN {"collscan"}
  ELSE IF stage = "IXSCAN" THEN {"ixscan"}
  ELSE IF stage = "FETCH" THEN {"fetch"}
  ELSE {}

\* PrintExplainResults: which sections it shows and which warnings it writes
PrintExplainResults(document) ==
  LET executionStats == document.executionStats
      queryPlanner == document.queryPlanner
      winningPlan == queryPlanner.winningPlan
      aStats == TypeAssert(executionStats, "map")
      aTime == TypeAssert(executionStats.executionTimeMillis, "int64")
      aExamined == TypeAssert(executionStats.totalDocsExamined, "int64")
      aReturned == TypeAssert(executionStats.nReturned, "int64")
      aPlanner == TypeAssert(queryPlanner, "map")
      aWinning == TypeAssert(winningPlan, "map")
      aStage == TypeAssert(winningPlan.stage, "string")
      execTime == executionStats.executionTimeMillis.val
      totalExamined == executionStats.totalDocsExamined.val
      nReturned == executionStats.nReturned.val
      slow == aStats.ok /\ aTime.ok /\ execTime > SlowMs
      over == /\ aStats.ok /\ aExamined.ok /\ aReturned.ok
              /\ nReturned > 0
              /\ totalExamined > nReturned * OverFactor
      stageRead == aPlanner.ok /\ aWinning.ok /\ aStage.ok
  IN [statsShown |-> aStats.ok,
      slow |-> slow,
      over |-> over,
      ratio |-> IF over THEN totalExamined \div nReturned ELSE 0,
      planShown |-> aPlanner.ok,
      stage |-> IF stageRead THEN {winningPlan.stage.val} ELSE {},
      messages |-> IF stageRead THEN StageMessage(winningPlan.stage.val) ELSE {},
      panicked |->
        \/ aStats.panic
        \/ aStats.ok /\ (aTime.panic \/ aExamined.panic
                         \/ (aExamined.ok /\ aReturned.panic))
        \/ aPlanner.panic
        \/ aPlanner.ok /\ (aWinning.panic \/ (aWinning.ok /\ aStage.panic))]

\* a field of ExecutionStats: the asserted int64, else Go's zero value
Int64Field(v) == IF TypeAssert(v, "int64").ok THEN v.val ELSE 0

\* the QueryMetrics a program builds from the explain document (explainResult) after its read:
\* <<>> if executionStats is no map; ExecutionStats is nil (<<>>) unless one of
\* the four statistics is an int64
BuildMetrics(document, records) ==
  LET execStats == document.executionStats
      any == \/ TypeAssert(execStats.executionTimeMillis, "int64").ok
             \/ TypeAssert(execStats.totalDocsExamined, "int64").ok
             \/ TypeAssert(execStats.totalKeysExamined, "int64").ok
             \/ TypeAssert(execStats.nReturned, "int64").ok
  IN IF ~TypeAssert(execStats, "map").ok THEN <<>>
     ELSE <<[RecordsRead |-> records,
             ExecutionStats |->
               IF ~any THEN <<>>
               ELSE <<[ExecutionTimeMillis |-> Int64Field(execStats.executionTimeMillis),
                       TotalDocsExamined |-> Int64Field(execStats.totalDocsExamined),
                       TotalKeysExamined |-> Int64Field(execStats.totalKeysExamined),
                       NReturned |-> Int64Field(execStats.nReturned)]>>]>>

\* faulty variant: the ratio is taken the other way round
EfficiencyInverse(n, d) == IF n = 0 THEN 0 ELSE (d * 10000) \div n

\* float64(n) / float64(d) * 100, in hundredths of a percent as %.2f shows it
Efficiency(n, d) == (n * 10000) \div d

\* PrintMetrics: the statistics it shows, the efficiency and its warning
PrintMetrics(m) ==
  LET shown == m.ExecutionStats # <<>>
      st == m.ExecutionStats[1]
      ratioShown == shown /\ st.TotalDocsExamined > 0
  IN [recordsRead |-> m.RecordsRead,
      statsShown |-> shown,
      time |-> IF shown THEN {st.ExecutionTimeMillis} ELSE {},
      examined |-> IF shown THEN {st.TotalDocsExamined} ELSE {},
      keys |-> IF shown THEN {st.TotalKeysExamined} ELSE {},
      returned |-> IF shown THEN {st.NReturned} ELSE {},
      efficiency |-> IF ratioShown
                       THEN {Efficiency(st.NReturned, st.TotalDocsExamined)}
                       ELSE {},
      low |-> ratioShown
              /\ Efficiency(st.NReturned, st.TotalDocsExamined) < LowEfficiency * 100]

NoDocument == [executionStats |-> NoStats("absent"),
               queryPlanner |-> [type |-> "absent",
                                 winningPlan |-> NoWinningPlan("absent")]]
NoExplainOutput == [statsShown |-> FALSE, slow |-> FALSE, over |-> FALSE, ratio |-> 0,
                    planShown |-> FALSE, stage |-> {}, messages |-> {},
                    panicked |-> FALSE]
NoMetricsOutput == [recordsRead |-> 0, statsShown |-> FALSE, time |-> {},
                    examined |-> {}, keys |-> {}, returned |-> {},
                    efficiency |-> {}, low |-> FALSE]
NoAnalysis == [phase |-> "off", doc |-> NoDocument, explained |-> NoExplainOutput,
               metrics |-> <<>>, printed |-> NoMetricsOutput]

\* ------------------------------------------------------------------- Init
RunInit ==
  /\ pc = "start"
  /\ totalCount = 0
  /\ explainResult = "nil"
  /\ events = {}
  /\ spawned = 0
  /\ wg = 0
  /\ totalRead = 0
  /\ wpc = [w \in Workers |-> "unspawned"]
  /\ mcursor = NoCursor
  /\ cursor = [w \in Workers |-> NoCursor]
  /\ localCount = [w \in Workers |-> 0]
  /\ decodeErrs = [w \in Workers |-> {}]
  /\ recordCount = 0
  /\ recordsRead = 0
  /\ metrics = <<>>
  /\ logged = {}
  /\ access = {}
  /\ requests = NoRequests

Init ==
  /\ store \in [paid : 0..MaxDocs, other : 0..MaxOther]
  /\ strategy \in Strategies
  /\ IF strategy = "read_v4"
       THEN numWorkers \in 1..MaxWorkers /\ chunkSize \in 1..MaxChunk
       ELSE numWorkers = 1 /\ chunkSize = 1
  /\ RunInit
  /\ prevRead = {}
  /\ sc = NoScenario
  /\ an = NoAnalysis
  /\ mem = NoMemory

\* ------------------------------------------------ main: setup and explain
\* faulty variant: a single-threaded program starts measuring at once
FirstStepNoExplain(s) == IF s = "read_v4" THEN "count" ELSE "memBefore"

\* the first request of a program: read_v4 counts, the others explain
FirstStep(s) == IF s = "read_v4" THEN "count" ELSE "explain"

\* faulty variant: the error of NewLogger or mongo.Connect is not acted upon
AfterSetupErrorIgnored(s) == FirstStep(s)

\* NewLogger failed: main returns; mongo.Connect failed: log.Fatal
AfterSetupError(s) == "aborted"

\* NewLogger and GetMongo; a logger that cannot be created or a connection
\* that cannot be set up ends the program
Setup ==
  /\ pc = "start"
  /\ \E ok \in BOOLEAN :
       /\ pc' = IF ok THEN FirstStep(strategy) ELSE AfterSetupError(strategy)
       /\ events' = IF ok THEN events ELSE events \cup {"setupError"}
  /\ UNCHANGED <<totalCount, explainResult, spawned, mcursor, recordCount,
                 recordsRead, metrics, logged, access>>
  /\ UNCHANGED workerVars
  /\ UNCHANGED <<store, requests, confVars>>

\* read_v4: col.CountDocuments(ctx, {"status": "PAID"}), panic on error
CountDocuments ==
  /\ pc = "count"
  /\ \E ok \in BOOLEAN :
       IF ok
         THEN /\ totalCount' = CountMatching(store, "paid")
              /\ pc' = "explain"
         ELSE /\ totalCount' = totalCount
              /\ pc' = "crashed"
  /\ events' = events \cup {"count"}
  /\ UNCHANGED <<explainResult, spawned, mcursor, recordCount, recordsRead,
                 metrics, logged, access>>
  /\ UNCHANGED workerVars
  /\ store' = StoreAfter(store, "count")
  /\ requests' = Issue(requests, CountRequest)
  /\ UNCHANGED confVars

\* faulty variant: a failed explain request ends the program
AfterExplainFatal(r) == IF r = "err" THEN "crashed" ELSE "memBefore"

\* where main goes once the explain step is over, whatever its outcome r
AfterExplain(r) == "memBefore"

\* the explain request; on success the document goes to PrintExplainResults,
\* on failure a warning is logged and the run goes on
Explain ==
  /\ pc = "explain"
  /\ \E r \in {"err", "noStats", "stats"} :
       /\ explainResult' = IF r = "err" THEN "nil" ELSE r
       /\ events' = events \cup {"explain"}
                      \cup (IF r = "err" THEN {} ELSE {"analyze"})
       /\ logged' = logged \cup (IF r = "err" THEN {<<"explain_failed">>} ELSE {})
       /\ pc' = AfterExplain(r)
  /\ UNCHANGED <<totalCount, spawned, mcursor, recordCount, recordsRead, metrics,
                 access>>
  /\ UNCHANGED workerVars
  /\ store' = StoreAfter(store, "explain")
  /\ requests' = Issue(requests, ExplainRequest)
  /\ UNCHANGED confVars

\* runtime.GC(); runtime.ReadMemStats(&memBefore)
MemBefore ==
  /\ pc = "memBefore"
  /\ events' = events \cup {"memBefore"}
  /\ pc' = IF strategy = "read_v4" THEN "spawn" ELSE "open"
  /\ UNCHANGED <<totalCount, explainResult, spawned, mcursor, recordCount,
                 recordsRead, metrics, logged, access>>
  /\ UNCHANGED workerVars
  /\ UNCHANGED <<store, requests, confVars>>

\* ------------------------------------------- main: single-threaded reads
\* faulty variant: a read error is logged and the loop left, as in a worker
PanicOnErrorSkipped == "memAfter"

\* panic(err) of the single-threaded programs: main ends there
PanicOnError == "crashed"

\* col.Find / col.Aggregate of a single-threaded strategy, panic on error
Open ==
  /\ pc = "open"
  /\ events' = events \cup {"open"}
  /\ \E ok \in BOOLEAN :
       IF ok
         THEN /\ mcursor' = [state |-> "open",
                             len |-> CountMatching(store, FilterOf(strategy)),
                             pos |-> 0, err |-> FALSE]
              /\ pc' = "read"
         ELSE /\ mcursor' = mcursor
              /\ pc' = PanicOnError
  /\ UNCHANGED <<totalCount, explainResult, spawned, recordCount, recordsRead,
                 metrics, logged, access>>
  /\ UNCHANGED workerVars
  /\ store' = StoreAfter(store, IF FilterOf(strategy) = "all" THEN "find"
                                                                 ELSE "aggregate")
  /\ requests' = Issue(requests, ReadRequest)
  /\ UNCHANGED confVars

\* faulty variant: a document is counted twice
CountRecordTwice(n) == n + 2

\* recordCount++ of the streaming loops
CountRecord(n) == n + 1

\* one turn of `for cursor.Next(ctx)` in read_v1, read_v2, read_v3, read_v5:
\* a decoded document is counted, a Decode error or a cursor error panics
ReadNext ==
  /\ pc = "read"
  /\ strategy # "read_bad"
  /\ \/ /\ mcursor.pos < mcursor.len
        /\ \E decoded \in BOOLEAN :
             IF decoded
               THEN /\ recordCount' = CountRecord(recordCount)
                    /\ pc' = pc
               ELSE /\ recordCount' = recordCount
                    /\ pc' = PanicOnError
        /\ mcursor' = [mcursor EXCEPT !.pos = @ + 1]
     \/ /\ mcursor.pos < mcursor.len
        /\ mcursor' = [mcursor EXCEPT !.err = TRUE]
        /\ recordCount' = recordCount
        /\ pc' = PanicOnError
     \/ /\ mcursor.pos = mcursor.len
        /\ mcursor' = mcursor
        /\ recordCount' = recordCount
        /\ pc' = "memAfter"
  /\ UNCHANGED <<totalCount, explainResult, events, spawned, recordsRead, metrics,
                 logged, access>>
  /\ UNCHANGED workerVars
  /\ UNCHANGED <<store, requests, confVars>>

\* read_bad: cursor.All(ctx, &results); recordCount stands for len(results)
ReadAll ==
  /\ pc = "read"
  /\ strategy = "read_bad"
  /\ \E ok \in BOOLEAN :
       IF ok
         THEN /\ mcursor' = [mcursor EXCEPT !.pos = mcursor.len, !.state = "closed"]
              /\ recordCount' = mcursor.len
              /\ pc' = "memAfter"
         ELSE /\ mcursor' = [mcursor EXCEPT !.err = TRUE]
              /\ recordCount' = recordCount
              /\ pc' = PanicOnError
  /\ UNCHANGED <<totalCount, explainResult, events, spawned, recordsRead, metrics,
                 logged, access>>
  /\ UNCHANGED workerVars
  /\ UNCHANGED <<store, requests, confVars>>

\* ------------------------------------------------- main: measure, report
\* runtime.ReadMemStats(&memAfter)
MemAfter ==
  /\ pc = "memAfter"
  /\ events' = events \cup {"memAfter"}
  /\ pc' = "report"
  /\ UNCHANGED <<totalCount, explainResult, spawned, mcursor, recordCount,
                 recordsRead, metrics, logged, access>>
  /\ UNCHANGED workerVars
  /\ UNCHANGED <<store, requests, confVars>>

\* the "Okunan Kayit" line: totalRead in read_v4, recordCount elsewhere
Report ==
  /\ pc = "report"
  /\ recordsRead' = IF strategy = "read_v4" THEN totalRead ELSE recordCount
  /\ access' = access \cup
                 (IF strategy = "read_v4"
                    THEN {<<MainActor, <<"totalRead">>, "read">>} ELSE {})
  /\ events' = events \cup {"report"}
  /\ pc' = "metrics"
  /\ UNCHANGED <<totalCount, explainResult, spawned, mcursor, recordCount, metrics,
                 logged>>
  /\ UNCHANGED workerVars
  /\ UNCHANGED <<store, requests, confVars>>

\* QueryMetrics is built and PrintMetrics called only for an explain document
\* that holds executionStats
Metrics ==
  /\ pc = "metrics"
  /\ IF explainResult = "stats"
       THEN /\ metrics' = <<[RecordsRead |->
                              IF strategy = "read_v4" THEN totalRead ELSE recordCount]>>
            /\ events' = events \cup {"metrics"}
       ELSE /\ metrics' = metrics
            /\ events' = events
  /\ pc' = "done"
  /\ UNCHANGED <<totalCount, explainResult, spawned, mcursor, recordCount,
                 recordsRead, logged, access>>
  /\ UNCHANGED workerVars
  /\ UNCHANGED <<store, requests, confVars>>

\* ------------------------------------------------- read_v4: coordinator
\* one turn of the dispatch loop: wg.Add(1); go func(workerID) {...}(i)
Spawn ==
  /\ pc = "spawn"
  /\ spawned < numWorkers
  /\ wg' = wg + 1
  /\ wpc' = [wpc EXCEPT ![spawned] = "start"]
  /\ spawned' = spawned + 1
  /\ pc' = IF spawned + 1 < numWorkers THEN "spawn" ELSE "wait"
  /\ access' = access \cup {<<MainActor, <<"wg">>, "sync">>}
  /\ UNCHANGED <<totalCount, explainResult, events, mcursor, recordCount,
                 recordsRead, metrics, logged>>
  /\ UNCHANGED <<totalRead, cursor, localCount, decodeErrs>>
  /\ UNCHANGED <<store, requests, confVars>>

\* faulty variant: the barrier opens with one worker still running
WaitReturnsEarly(counter) == counter <= 1

\* wg.Wait() returns when the counter is zero
WaitReturns(counter) == counter = 0

Wait ==
  /\ pc = "wait"
  /\ WaitReturns(wg)
  /\ pc' = "memAfter"
  /\ access' = access \cup {<<MainActor, <<"wg">>, "sync">>}
  /\ UNCHANGED <<totalCount, explainResult, events, spawned, mcursor, recordCount,
                 recordsRead, metrics, logged>>
  /\ UNCHANGED workerVars
  /\ UNCHANGED <<store, requests, confVars>>

\* ----------------------------------------------------- read_v4: workers
\* faulty variant: the worker id is not scaled by the chunk size
SkipOfWorkerID(workerID, chunk) == workerID

\* skip := int64(workerID) * chunkSize
SkipOf(workerID, chunk) == workerID * chunk

\* faulty variant: no worker returns before its request
IsIdleNever(skip, total) == FALSE

\* if skip >= totalCount { return }
IsIdle(skip, total) == skip >= total

\* faulty variant: the total is stored, not added to
StoreInt64(value, delta) == delta

\* {"$skip": skip}, {"$limit": chunkSize}: the offsets, in the matching
\* documents of an unchanged collection, a worker's pipeline selects from
ChunkRange(w, chunk) == {o \in Nat : SkipOf(w, chunk) <= o /\ o < SkipOf(w, chunk) + chunk}

\* the offset of the k-th document of worker w's cursor
CursorOffset(w, chunk, k) == SkipOf(w, chunk) + k - 1

\* atomic.AddInt64(&totalRead, delta)
AtomicAddInt64(value, delta) == value + delta

\* faulty variant: a Decode error leaves the loop
AfterDecodeErrorBreak == "add"

\* a Decode error is logged and the loop goes on with the next document
AfterDecodeError == "next"

\* localCount++ only for a decoded document
CountDecoded(n, decoded) == IF decoded THEN n + 1 ELSE n

\* the objects a worker's return touches: the deferred wg.Done()
DoneAccess(w) == {<<WorkerActor(w), <<"wg">>, "sync">>}
LogAccess(w) == {<<WorkerActor(w), <<"logger">>, "plain">>}
\* faulty variant: localCount is one variable shared by the goroutines
LoopAccessShared(w) == {<<WorkerActor(w), <<"cursor", w>>, "plain">>,
                        <<WorkerActor(w), <<"localCount", 0>>, "plain">>}
LoopAccess(w) == {<<WorkerActor(w), <<"cursor", w>>, "plain">>,
                  <<WorkerActor(w), <<"localCount", w>>, "plain">>}
AddAccess(w) == {<<WorkerActor(w), <<"totalRead">>, "atomic">>,
                 <<WorkerActor(w), <<"localCount", w>>, "plain">>}

\* the goroutine starts: a worker whose chunk lies past the count returns at once
WorkerStart(w) ==
  /\ wpc[w] = "start"
  /\ IF IsIdle(SkipOf(w, chunkSize), totalCount)
       THEN /\ wpc' = [wpc EXCEPT ![w] = "done"]
            /\ wg' = wg - 1
            /\ access' = access \cup DoneAccess(w)
       ELSE /\ wpc' = [wpc EXCEPT ![w] = "aggregate"]
            /\ wg' = wg
            /\ access' = access
  /\ UNCHANGED <<pc, totalCount, explainResult, events, spawned, mcursor,
                 recordCount, recordsRead, metrics, logged>>
  /\ UNCHANGED <<totalRead, cursor, localCount, decodeErrs>>
  /\ UNCHANGED <<store, requests, confVars>>

\* col.Aggregate returned a cursor
AggregateOk(w) ==
  /\ cursor' = [cursor EXCEPT ![w] =
        [state |-> "open",
         len |-> AggregateDocs(CountMatching(store, "paid"),
                               SkipOf(w, chunkSize), chunkSize),
         pos |-> 0, err |-> FALSE]]
  /\ wpc' = [wpc EXCEPT ![w] = "next"]
  /\ access' = access \cup {<<WorkerActor(w), <<"col">>, "call">>}
  /\ UNCHANGED <<pc, wg, logged>>

\* faulty variant: a failed request panics, which ends the whole program
AggregateFailedPanics(w) ==
  /\ wpc' = [wpc EXCEPT ![w] = "done"]
  /\ pc' = "crashed"
  /\ logged' = logged \cup {<<"worker_err", w>>}
  /\ access' = access \cup {<<WorkerActor(w), <<"col">>, "call">>}
                 \cup LogAccess(w)
  /\ UNCHANGED <<wg, cursor>>

\* faulty variant: the return after a failed request does not reach wg.Done()
AggregateFailedNoDone(w) ==
  /\ wpc' = [wpc EXCEPT ![w] = "done"]
  /\ wg' = wg
  /\ logged' = logged \cup {<<"worker_err", w>>}
  /\ access' = access \cup {<<WorkerActor(w), <<"col">>, "call">>}
                 \cup LogAccess(w)
  /\ UNCHANGED <<pc, cursor>>

\* faulty variant: a failed request is sent again
AggregateFailedRetries(w) ==
  /\ wpc' = wpc
  /\ wg' = wg
  /\ logged' = logged \cup {<<"worker_err", w>>}
  /\ access' = access \cup {<<WorkerActor(w), <<"col">>, "call">>}
                 \cup LogAccess(w)
  /\ UNCHANGED <<pc, cursor>>

\* col.Aggregate returned an error: the worker logs it and returns
\* (the deferred wg.Done() runs); main and the other workers go on
AggregateFailed(w) ==
  /\ wpc' = [wpc EXCEPT ![w] = "done"]
  /\ wg' = wg - 1
  /\ logged' = logged \cup {<<"worker_err", w>>}
  /\ access' = access \cup {<<WorkerActor(w), <<"col">>, "call">>}
                 \cup LogAccess(w) \cup DoneAccess(w)
  /\ UNCHANGED <<pc, cursor>>

\* cursor, err := col.Aggregate(ctx, chunkPipeline, ...)
WorkerAggregate(w) ==
  /\ wpc[w] = "aggregate"
  /\ events' = events \cup {"open"}
  /\ \E ok \in BOOLEAN : IF ok THEN AggregateOk(w) ELSE AggregateFailed(w)
  /\ UNCHANGED <<totalCount, explainResult, spawned, mcursor, recordCount,
                 recordsRead, metrics>>
  /\ UNCHANGED <<totalRead, localCount, decodeErrs>>
  /\ store' = StoreAfter(store, "aggregate")
  /\ requests' = Issue(requests, ChunkRequest(w))
  /\ UNCHANGED confVars

\* one turn of `for cursor.Next(ctx)`, and the cursor.Err() check after it
WorkerNext(w) ==
  /\ wpc[w] = "next"
  /\ \/ /\ cursor[w].pos < cursor[w].len
        /\ \E decoded \in BOOLEAN :
             /\ localCount' = [localCount EXCEPT ![w] = CountDecoded(@, decoded)]
             /\ IF decoded
                  THEN /\ wpc' = wpc
                       /\ decodeErrs' = decodeErrs
                       /\ logged' = logged
                       /\ access' = access \cup LoopAccess(w)
                  ELSE /\ wpc' = [wpc EXCEPT ![w] = AfterDecodeError]
                       /\ decodeErrs' = [decodeErrs EXCEPT
                                           ![w] = @ \cup {cursor[w].pos + 1}]
                       /\ logged' = logged \cup {<<"decode_err", w>>}
                       /\ access' = access \cup LoopAccess(w) \cup LogAccess(w)
        /\ cursor' = [cursor EXCEPT ![w].pos = @ + 1]
     \/ /\ cursor[w].pos < cursor[w].len
        /\ cursor' = [cursor EXCEPT ![w].err = TRUE]
        /\ wpc' = [wpc EXCEPT ![w] = "add"]
        /\ logged' = logged \cup {<<"cursor_err", w>>}
        /\ access' = access \cup LoopAccess(w) \cup LogAccess(w)
        /\ UNCHANGED <<localCount, decodeErrs>>
     \/ /\ cursor[w].pos = cursor[w].len
        /\ wpc' = [wpc EXCEPT ![w] = "add"]
        /\ access' = access \cup LoopAccess(w)
        /\ UNCHANGED <<cursor, localCount, decodeErrs, logged>>
  /\ UNCHANGED <<pc, totalCount, explainResult, events, spawned, mcursor,
                 recordCount, recordsRead, metrics>>
  /\ UNCHANGED <<totalRead, wg>>
  /\ UNCHANGED <<store, requests, confVars>>

\* atomic.AddInt64(&totalRead, int64(localCount))
WorkerAdd(w) ==
  /\ wpc[w] = "add"
  /\ totalRead' = AtomicAddInt64(totalRead, localCount[w])
  /\ access' = access \cup AddAccess(w)
  /\ wpc' = [wpc EXCEPT ![w] = "finish"]
  /\ UNCHANGED <<pc, totalCount, explainResult, events, spawned, mcursor,
                 recordCount, recordsRead, metrics, logged>>
  /\ UNCHANGED <<wg, cursor, localCount, decodeErrs>>
  /\ UNCHANGED <<store, requests, confVars>>

\* the completion line, then the deferred cursor.Close(ctx) and wg.Done()
WorkerFinish(w) ==
  /\ wpc[w] = "finish"
  /\ logged' = logged \cup {<<"worker_done", w, localCount[w]>>}
  /\ access' = access \cup LogAccess(w) \cup DoneAccess(w)
                 \cup {<<WorkerActor(w), <<"localCount", w>>, "plain">>,
                       <<WorkerActor(w), <<"cursor", w>>, "plain">>}
  /\ cursor' = [cursor EXCEPT ![w].state = "closed"]
  /\ wg' = wg - 1
  /\ wpc' = [wpc EXCEPT ![w] = "done"]
  /\ UNCHANGED <<pc, totalCount, explainResult, events, spawned, mcursor,
                 recordCount, recordsRead, metrics>>
  /\ UNCHANGED <<totalRead, localCount, decodeErrs>>
  /\ UNCHANGED <<store, requests, confVars>>

\* ------------------------------------------------------- a further run
Warnings == {l \in logged : l[1] # "worker_done"}
ReadWarnings == {l \in logged : l[1] \in {"worker_err", "decode_err", "cursor_err"}}

\* the program is started again on the same collection
Rerun ==
  /\ pc = "done"
  /\ prevRead' = IF ReadWarnings = {} THEN {recordsRead} ELSE {}
  /\ pc' = "start"
  /\ totalCount' = 0
  /\ explainResult' = "nil"
  /\ events' = {}
  /\ spawned' = 0
  /\ wg' = 0
  /\ totalRead' = 0
  /\ wpc' = [w \in Workers |-> "unspawned"]
  /\ mcursor' = NoCursor
  /\ cursor' = [w \in Workers |-> NoCursor]
  /\ localCount' = [w \in Workers |-> 0]
  /\ decodeErrs' = [w \in Workers |-> {}]
  /\ recordCount' = 0
  /\ recordsRead' = 0
  /\ metrics' = <<>>
  /\ logged' = {}
  /\ access' = {}
  /\ requests' = NoRequests
  /\ UNCHANGED <<store, strategy, numWorkers, chunkSize, sc, an, mem>>

\* ------------------------------------------------------------------ Spec
Next ==
  \/ Setup
  \/ CountDocuments
  \/ Explain
  \/ MemBefore
  \/ Open
  \/ ReadNext
  \/ ReadAll
  \/ Spawn
  \/ Wait
  \/ \E w \in Workers : WorkerStart(w)
  \/ \E w \in Workers : WorkerAggregate(w)
  \/ \E w \in Workers : WorkerNext(w)
  \/ \E w \in Workers : WorkerAdd(w)
  \/ \E w \in Workers : WorkerFinish(w)
  \/ MemAfter
  \/ Report
  \/ Metrics

Spec == Init /\ [][Next]_vars

\* ------------------------------------- read_v4 under the Go scheduler
LiveInit ==
  /\ Init
  /\ strategy = "read_v4"

\* the steps of main in read_v4
MainStep ==
  \/ Setup
  \/ CountDocuments
  \/ Explain
  \/ MemBefore
  \/ Spawn
  \/ Wait
  \/ MemAfter
  \/ Report
  \/ Metrics

\* the steps of the goroutine of worker w
WorkerStep(w) ==
  \/ WorkerStart(w)
  \/ WorkerAggregate(w)
  \/ WorkerNext(w)
  \/ WorkerAdd(w)
  \/ WorkerFinish(w)

NextLive ==
  \/ MainStep
  \/ \E w \in Workers : WorkerStep(w)

\* the scheduler runs every goroutine that can take a step; requests return
\* and cursors are finite, so a goroutine that is not done can take one
SpecLive ==
  /\ LiveInit
  /\ [][NextLive]_vars
  /\ WF_vars(MainStep)
  /\ \A w \in Workers : WF_vars(WorkerStep(w))

\* the same program, started again and again on the same collection
NextRerun ==
  \/ Next
  \/ Rerun

SpecRerun == Init /\ [][NextRerun]_vars

\* --------------------------------- read_v4 with the constants of the source
\* what a worker that meets no error adds to totalRead
WorkerReads(matching, total, w, chunk) ==
  IF IsIdle(SkipOf(w, chunk), total)
    THEN 0
    ELSE AggregateDocs(matching, SkipOf(w, chunk), chunk)

\* collections of 0, 50000, 100000, ... PAID documents
ScenarioTotals == {k * (ChunkSizeV4 \div 2) : k \in 0..ScenarioSteps}

ScenarioInit ==
  /\ \E t \in ScenarioTotals : store = [paid |-> t, other |-> 0]
  /\ strategy = "read_v4"
  /\ numWorkers = NumWorkersV4
  /\ chunkSize = ChunkSizeV4
  /\ RunInit
  /\ prevRead = {}
  /\ sc = [worker |-> 0, counts |-> <<>>, sum |-> 0, phase |-> "run"]
  /\ an = NoAnalysis
  /\ mem = NoMemory

\* the next worker runs from its start to its atomic add, with no error
ScenarioWorker ==
  /\ sc.phase = "run"
  /\ sc.worker < numWorkers
  /\ LET n == WorkerReads(CountMatching(store, "paid"),
                          CountMatching(store, "paid"), sc.worker, chunkSize)
     IN sc' = [sc EXCEPT !.worker = @ + 1,
                         !.counts = Append(@, n),
                         !.sum = AtomicAddInt64(@, n)]
  /\ UNCHANGED runVars
  /\ UNCHANGED <<store, strategy, numWorkers, chunkSize, prevRead, an, mem>>

\* every worker is done: main passes wg.Wait() and reports totalRead
ScenarioReport ==
  /\ sc.phase = "run"
  /\ sc.worker = numWorkers
  /\ sc' = [sc EXCEPT !.phase = "done"]
  /\ UNCHANGED runVars
  /\ UNCHANGED <<store, strategy, numWorkers, chunkSize, prevRead, an, mem>>

NextScenario ==
  \/ ScenarioWorker
  \/ ScenarioReport

SpecScenario == ScenarioInit /\ [][NextScenario]_vars

\* ------------------------------------------------ the analyzer on its own
\* an explain document was decoded; the read that follows is left out
AnalyzerInit ==
  /\ store = [paid |-> 0, other |-> 0]
  /\ strategy = "read_v1"
  /\ numWorkers = 1
  /\ chunkSize = 1
  /\ RunInit
  /\ prevRead = {}
  /\ sc = NoScenario
  /\ an \in {[NoAnalysis EXCEPT !.phase = "explain", !.doc = d] : d \in Documents}
  /\ mem = NoMemory

\* PrintExplainResults(explainResult, version, logger)
CallPrintExplainResults ==
  /\ an.phase = "explain"
  /\ LET out == PrintExplainResults(an.doc)
     IN an' = [an EXCEPT !.explained = out,
                         !.phase = IF out.panicked THEN "panicked" ELSE "parse"]
  /\ UNCHANGED runVars
  /\ UNCHANGED <<store, strategy, numWorkers, chunkSize, prevRead, sc, mem>>

\* after the read: the executionStats of the document become a QueryMetrics
CallBuildMetrics ==
  /\ an.phase = "parse"
  /\ LET m == BuildMetrics(an.doc, recordsRead)
     IN an' = [an EXCEPT !.metrics = m,
                         !.phase = IF m = <<>> THEN "done" ELSE "print"]
  /\ UNCHANGED runVars
  /\ UNCHANGED <<store, strategy, numWorkers, chunkSize, prevRead, sc, mem>>

\* PrintMetrics(metrics, version, logger)
CallPrintMetrics ==
  /\ an.phase = "print"
  /\ an' = [an EXCEPT !.printed = PrintMetrics(an.metrics[1]), !.phase = "done"]
  /\ UNCHANGED runVars
  /\ UNCHANGED <<store, strategy, numWorkers, chunkSize, prevRead, sc, mem>>

NextAnalyzer ==
  \/ CallPrintExplainResults
  \/ CallBuildMetrics
  \/ CallPrintMetrics

SpecAnalyzer == AnalyzerInit /\ [][NextAnalyzer]_vars

\* ------------------------------------------------ the memory delta alone
MemoryInit ==
  /\ store = [paid |-> 0, other |-> 0]
  /\ strategy = "read_v1"
  /\ numWorkers = 1
  /\ chunkSize = 1
  /\ RunInit
  /\ prevRead = {}
  /\ sc = NoScenario
  /\ an = NoAnalysis
  /\ mem = [NoMemory EXCEPT !.phase = "before"]

\* runtime.GC(); runtime.ReadMemStats(&memBefore)
SampleBefore ==
  /\ mem.phase = "before"
  /\ \E b \in Uint64 : mem' = [mem EXCEPT !.before = b, !.phase = "after"]
  /\ UNCHANGED runVars
  /\ UNCHANGED <<store, strategy, numWorkers, chunkSize, prevRead, sc, an>>

\* runtime.ReadMemStats(&memAfter) and the subtraction
SampleAfter ==
  /\ mem.phase = "after"
  /\ \E a \in Uint64 :
       mem' = [mem EXCEPT !.after = a,
                          !.memoryUsed = MemoryUsed(a, mem.before),
                          !.phase = "report"]
  /\ UNCHANGED runVars
  /\ UNCHANGED <<store, strategy, numWorkers, chunkSize, prevRead, sc, an>>

\* the memory line of the report and QueryMetrics.MemoryUsed
ReportMemory ==
  /\ mem.phase = "report"
  /\ mem' = [mem EXCEPT !.reported = {mem.memoryUsed}, !.phase = "done"]
  /\ UNCHANGED runVars
  /\ UNCHANGED <<store, strategy, numWorkers, chunkSize, prevRead, sc, an>>

NextMemory ==
  \/ SampleBefore
  \/ SampleAfter
  \/ ReportMemory

SpecMemory == MemoryInit /\ [][NextMemory]_vars

\* ------------------------------------------------ explained vs read request
\* the batch size the programs ask for
BatchSize == 1000

\* a find command: filter, optional projection, skip, limit and batch size
FindCommand(filter, projection, batch) ==
  [op |-> "find", filter |-> filter, projection |-> projection,
   stages |-> <<>>, skip |-> {}, limit |-> {}, batchSize |-> batch]

\* an aggregate command: its pipeline stages and their arguments
AggregateCommand(stages, skip, limit) ==
  [op |-> "aggregate", filter |-> "paid", projection |-> TRUE,
   stages |-> stages, skip |-> skip, limit |-> limit, batchSize |-> {BatchSize}]

\* the command a program hands to explain: ExplainQuery copies filter,
\* projection, limit and skip of the find options, nothing else; the
\* aggregation programs explain `pipeline`
ExplainCommand(s) ==
  CASE s \in {"read_bad", "read_v1"} -> FindCommand("all", FALSE, {})
    [] s = "read_v2" -> FindCommand("all", TRUE, {})
    [] OTHER -> AggregateCommand(<<"$match", "$project">>, {}, {})

\* the read request a program issues; in read_v4 worker w runs chunkPipeline
ReadCommand(s, w) ==
  CASE s \in {"read_bad", "read_v1"} -> FindCommand("all", FALSE, {})
    [] s = "read_v2" -> FindCommand("all", TRUE, {BatchSize})
    [] s = "read_v4" ->
         AggregateCommand(<<"$match", "$skip", "$limit", "$project">>,
                          {SkipOf(w, chunkSize)}, {chunkSize})
    [] OTHER -> AggregateCommand(<<"$match", "$project">>, {}, {})

\* the command explained so far, if any
ExplainedCmds == IF "explain" \in events THEN {ExplainCommand(strategy)} ELSE {}

\* the read requests issued so far
IssuedReads ==
  IF strategy = "read_v4"
    THEN {ReadCommand(strategy, w) :
            w \in {v \in Workers : <<WorkerActor(v), <<"col">>, "call">> \in access}}
    ELSE IF "open" \in events THEN {ReadCommand(strategy, 0)} ELSE {}

\* ================================================================ claims
\* a worker that has passed its atomic add
HasAdded(w) ==
  \/ wpc[w] = "finish"
  \/ wpc[w] = "done" /\ cursor[w].state = "closed"

\* the workers of this run
Dispatched == {w \in Workers : w < numWorkers}

WorkerAccesses == {a \in access : a[1][1] = "worker"}

\* C1: in read_v4, under every interleaving, totalRead is the sum of the
\* localCount of the workers that have done their atomic add, and so is the
\* total reported after the barrier; a worker touches totalRead only through
\* the atomic add and touches no localCount but its own.
C1_TotalIsSumOfLocalCounts ==
  strategy = "read_v4" =>
    /\ totalRead = SumOver({w \in Workers : HasAdded(w)}, localCount)
    /\ "report" \in events =>
         recordsRead = SumOver({w \in Workers : HasAdded(w)}, localCount)
    /\ \A a \in WorkerAccesses :
         /\ a[2] = <<"totalRead">> => a[3] = "atomic"
         /\ a[2][1] = "localCount" => a[2] = <<"localCount", a[1][2]>>

C1_Witness ==
  /\ strategy = "read_v4"
  /\ pc = "done"
  /\ \E v, w \in Workers :
       /\ v # w
       /\ HasAdded(v) /\ HasAdded(w)
       /\ localCount[v] >= 1 /\ localCount[w] >= 1
  /\ recordsRead >= 2

\* C2: in read_v4 main samples memAfter, reads and reports totalRead only once
\* every dispatched worker is done, the idle ones and the ones that returned
\* on a request error included.
C2_ReportAfterAllWorkersDone ==
  ( /\ strategy = "read_v4"
    /\ \/ pc \in {"memAfter", "report", "metrics", "done"}
       \/ "report" \in events
       \/ <<MainActor, <<"totalRead">>, "read">> \in access )
  => /\ spawned = numWorkers
     /\ \A w \in Dispatched : wpc[w] = "done"

C2_Witness ==
  /\ strategy = "read_v4"
  /\ "report" \in events
  /\ \E v, w \in Dispatched :
       /\ <<"worker_err", v>> \in logged
       /\ wpc[w] = "done" /\ cursor[w].state = "none"
       /\ <<"worker_err", w>> \notin logged

\* C3 as stated: with 250,000 matching documents, 10 workers and chunks of
\* 100,000 the workers together read a number of records other than 250,000.
C3_Original ==
  (sc.phase = "done" /\ store.paid = 250000) => sc.sum # store.paid

\* C3 as amended: in that scenario the workers together read exactly the
\* 250,000 records: workers 0 and 1 read 100,000 each, worker 2 the remaining
\* 50,000, workers 3 to 9 nothing.
C3_ScenarioReadsAll ==
  (sc.phase = "done" /\ store.paid = 250000) =>
    /\ sc.sum = 250000
    /\ sc.counts = <<100000, 100000, 50000, 0, 0, 0, 0, 0, 0, 0>>

C3_Witness ==
  /\ sc.phase = "done"
  /\ store.paid = 250000
  /\ numWorkers = 10 /\ chunkSize = 100000

\* no warning was logged and no worker's cursor failed
NoWorkerError ==
  /\ ReadWarnings = {}
  /\ \A w \in Workers : ~cursor[w].err

\* C4: in read_v4, when numWorkers * chunkSize is less than the number of
\* matching documents, no worker reads a record at an offset of
\* numWorkers * chunkSize or more, and a run without worker errors reports
\* numWorkers * chunkSize, less than the count, with no warning and no crash.
C4_TailNeverRead ==
  (strategy = "read_v4" /\ numWorkers * chunkSize < store.paid) =>
    /\ \A w \in Workers :
         cursor[w].pos > 0 =>
           w * chunkSize + cursor[w].pos - 1 < numWorkers * chunkSize
    /\ ("report" \in events /\ NoWorkerError) =>
         /\ recordsRead = numWorkers * chunkSize
         /\ recordsRead < totalCount
         /\ Warnings \subseteq {<<"explain_failed">>}
         /\ pc # "crashed"

C4_Witness ==
  /\ strategy = "read_v4"
  /\ numWorkers * chunkSize < store.paid
  /\ pc = "done"
  /\ NoWorkerError
  /\ recordsRead = numWorkers * chunkSize

\* C5 as stated: a worker that hits a Decode error stops iterating at that
\* record: once a Decode has failed its cursor is not advanced again.
C5_Original ==
  [][\A w \in Workers : decodeErrs[w] # {} => cursor'[w].pos = cursor[w].pos]_vars

\* C5 as amended: a Decode error is logged, the record is not counted and the
\* worker goes on with the next record; localCount is the number of records
\* decoded before and after the failing ones, and that count is what the
\* worker adds to the total.
C5_DecodeErrorStep ==
  \A w \in Workers :
    decodeErrs'[w] # decodeErrs[w] =>
      /\ wpc'[w] = "next"
      /\ localCount'[w] = localCount[w]
      /\ cursor'[w].pos = cursor[w].pos + 1
      /\ <<"decode_err", w>> \in logged'

C5_CountsDecoded ==
  strategy = "read_v4" =>
    /\ \A w \in Workers :
         localCount[w] = cursor[w].pos - Cardinality(decodeErrs[w])
    /\ "report" \in events =>
         recordsRead =
           SumOver({w \in Workers : HasAdded(w)},
                   [w \in Workers |-> cursor[w].pos - Cardinality(decodeErrs[w])])

C5_DecodeErrorSkipsRecord ==
  /\ []C5_CountsDecoded
  /\ [][C5_DecodeErrorStep]_vars

C5_Witness ==
  /\ strategy = "read_v4"
  /\ "report" \in events
  /\ \E w \in Workers :
       /\ HasAdded(w)
       /\ \E k \in decodeErrs[w] : k < cursor[w].pos /\ (k + 1) \notin decodeErrs[w]
       /\ localCount[w] >= 1
       /\ recordsRead >= localCount[w]

\* the error lines worker w has logged
ErrorsOf(w) == {l \in ReadWarnings : l[2] = w}

\* what worker w reads of a collection nobody changes when nothing fails
FullChunk(w) ==
  IF (w + 1) * chunkSize <= store.paid THEN chunkSize ELSE store.paid - w * chunkSize

\* C6: a request, Decode or cursor error of one worker changes nothing of main
\* or of the other workers; read_v4 never crashes once workers are dispatched;
\* the WaitGroup counter is the number of workers still running, so the barrier
\* opens when the last one returns; and at the end every worker that had no
\* error of its own has read and added its whole chunk.
C6_ErrorStep ==
  \A w \in Workers :
    ErrorsOf(w)' # ErrorsOf(w) =>
      /\ pc' = pc
      /\ \A v \in Workers \ {w} :
           /\ wpc'[v] = wpc[v]
           /\ cursor'[v] = cursor[v]
           /\ localCount'[v] = localCount[v]

C6_RunSurvives ==
  strategy = "read_v4" =>
    /\ spawned > 0 => pc \notin {"crashed", "aborted"}
    /\ wg = Cardinality({w \in Workers : wpc[w] \notin {"unspawned", "done"}})
    /\ pc = "done" =>
         /\ "report" \in events
         /\ \A w \in Dispatched :
              (ErrorsOf(w) = {} /\ w * chunkSize < store.paid) =>
                 /\ HasAdded(w)
                 /\ localCount[w] = FullChunk(w)
                 /\ recordsRead >= localCount[w]

C6_WorkerErrorsAreLocal ==
  /\ []C6_RunSurvives
  /\ [][C6_ErrorStep]_vars

C6_Witness ==
  /\ strategy = "read_v4"
  /\ pc = "done"
  /\ \E v, w \in Dispatched :
       /\ v # w
       /\ ErrorsOf(v) # {}
       /\ ErrorsOf(w) = {}
       /\ localCount[w] = FullChunk(w)
       /\ localCount[w] >= 1
       /\ recordsRead >= localCount[w]

\* two accesses of one object by different workers
Shared(a, b) == a[1] # b[1] /\ a[2] = b[2]

\* C7 as stated: no object is reached by two workers through an access that
\* is not synchronised.
C7_Original ==
  \A a, b \in WorkerAccesses : Shared(a, b) => a[3] # "plain"

\* C7 as amended: the objects more than one worker touches are totalRead
\* (atomic adds only), the WaitGroup (Done), the collection handle (Aggregate)
\* and the logger, which the workers write through with no lock of its own;
\* a cursor and a localCount are touched by their own worker only.
C7_SharedObjects ==
  /\ \A a, b \in WorkerAccesses :
       Shared(a, b) => a[2] \in {<<"totalRead">>, <<"wg">>, <<"col">>, <<"logger">>}
  /\ \A a \in WorkerAccesses :
       /\ a[2] = <<"totalRead">> => a[3] = "atomic"
       /\ a[2] = <<"wg">> => a[3] = "sync"
       /\ a[2] = <<"col">> => a[3] = "call"
       /\ a[2][1] \in {"cursor", "localCount"} => a[2][2] = a[1][2]

C7_Witness ==
  \E a, b \in WorkerAccesses :
    /\ Shared(a, b)
    /\ a[2] = <<"logger">>
    /\ wpc[a[1][2]] # "done"

\* C8: when a single-threaded strategy reports, its cursor has been read to
\* the end, the reported count is the number of documents the cursor produced,
\* and that is the number of stored documents its filter matches.
C8_RecordsReadIsDocumentCount ==
  (strategy \in SingleStrategies /\ "report" \in events) =>
    /\ mcursor.pos = mcursor.len
    /\ recordsRead = mcursor.pos
    /\ recordsRead = IF strategy \in {"read_bad", "read_v1", "read_v2"}
                       THEN store.paid + store.other
                       ELSE store.paid

C8_Witness ==
  /\ strategy = "read_v3"
  /\ pc = "done"
  /\ store.other >= 1
  /\ recordsRead >= 2

C9_SameCount ==
  (pc = "done" /\ prevRead # {} /\ NoWorkerError) => prevRead = {recordsRead}

ReadCompleted ==
  IF strategy = "read_v4"
    THEN spawned = numWorkers /\ \A w \in Dispatched : wpc[w] = "done"
    ELSE mcursor.state # "none" /\ mcursor.pos = mcursor.len

\* C10: memory is sampled and a cursor opened only after the explain request
\* was made and, when it returned a document, PrintExplainResults was given
\* it; PrintMetrics runs only after the read is over and memAfter is sampled.
C10_ExplainFirstMetricsLast ==
  /\ ( \/ "memBefore" \in events
       \/ "open" \in events
       \/ mcursor.state # "none"
       \/ \E w \in Workers : cursor[w].state # "none" )
     => /\ "explain" \in events
        /\ explainResult # "nil" => "analyze" \in events
  /\ "metrics" \in events =>
       /\ ReadCompleted
       /\ "memAfter" \in events
       /\ "report" \in events

C10_Witness ==
  /\ pc = "done"
  /\ "metrics" \in events
  /\ "analyze" \in events
  /\ recordsRead >= 1

\* the part of a command the plan depends on: what is read and how much
Descriptor(c) == [c EXCEPT !.batchSize = {}]

\* C11: every read request a program issues carries the filter, projection,
\* pipeline stages, skip and limit of the command it had explained.
C11_ExplainedIsExecuted ==
  \A c \in IssuedReads :
    \A e \in ExplainedCmds : Descriptor(c) = Descriptor(e)

\* C12: a failed explain request logs the warning and main goes on to the
\* memory sample (it does not abort); no explain document is kept, nothing is
\* handed to PrintExplainResults or PrintMetrics, and the run that ends has
\* sampled memory before and after the read and reported its record count.
C12_FailureStep ==
  (<<"explain_failed">> \in logged' /\ <<"explain_failed">> \notin logged)
    => pc' = "memBefore"

C12_NoClassification ==
  <<"explain_failed">> \in logged =>
    /\ explainResult = "nil"
    /\ "analyze" \notin events
    /\ "metrics" \notin events
    /\ pc # "aborted"
    /\ pc = "done" =>
         /\ {"memBefore", "memAfter", "report"} \subseteq events
         /\ recordsRead = IF strategy = "read_v4" THEN totalRead ELSE recordCount

C12_ExplainFailureNotFatal ==
  /\ []C12_NoClassification
  /\ [][C12_FailureStep]_vars

C12_Witness ==
  /\ <<"explain_failed">> \in logged
  /\ pc = "done"
  /\ "report" \in events
  /\ strategy = "read_bad"
  /\ recordsRead >= 2

\* what a run has measured or reported
Reported == events \cap {"memBefore", "open", "memAfter", "report", "metrics"}

\* C13 as stated: after a setup error or a rejected explain command the run
\* is over and has reported nothing.
C13_Original ==
  ("setupError" \in events \/ <<"explain_failed">> \in logged) =>
    /\ pc \in {"aborted", "crashed"}
    /\ Reported = {}

\* C13 as amended: a setup error (the log file cannot be created, the
\* connection cannot be set up, or in read_v4 the initial count fails) ends
\* the run for good with nothing measured or reported; a rejected explain
\* command does not: the run that then ends has reported its record count.
C13_SetupFatal ==
  /\ ("setupError" \in events \/ (pc = "crashed" /\ "explain" \notin events)) =>
       /\ pc \in {"aborted", "crashed"}
       /\ Reported = {}
       /\ recordsRead = 0
       /\ metrics = <<>>
  /\ (<<"explain_failed">> \in logged /\ pc = "done") => "report" \in events

C13_EndedStep == pc \in {"aborted", "crashed"} => pc' = pc

C13_SetupErrorIsFatal ==
  /\ []C13_SetupFatal
  /\ [][C13_EndedStep]_vars

C13_Witness ==
  /\ "setupError" \in events
  /\ pc = "aborted"
  /\ store.paid >= 1

\* C14: in a single-threaded program a failed Find/Aggregate, a failed Decode
\* or a cursor error ends main at that step; afterwards nothing more is read
\* and neither memAfter, the record count nor PrintMetrics follows.
C14_ErrorStep ==
  strategy \in SingleStrategies =>
    /\ ("open" \in events' /\ "open" \notin events /\ mcursor'.state = "none")
         => pc' = "crashed"
    /\ (mcursor'.err /\ ~mcursor.err) => pc' = "crashed"
    /\ (mcursor'.pos = mcursor.pos + 1 /\ recordCount' = recordCount)
         => pc' = "crashed"
    /\ pc = "crashed" =>
         /\ pc' = pc
         /\ mcursor' = mcursor
         /\ recordCount' = recordCount
         /\ events' = events

C14_NothingReported ==
  (strategy \in SingleStrategies /\ pc = "crashed") =>
    /\ events \cap {"memAfter", "report", "metrics"} = {}
    /\ recordsRead = 0
    /\ metrics = <<>>

C14_ReadErrorAborts ==
  /\ []C14_NothingReported
  /\ [][C14_ErrorStep]_vars

C14_Witness ==
  /\ strategy = "read_v1"
  /\ pc = "crashed"
  /\ recordCount >= 1
  /\ mcursor.pos = recordCount + 1
  /\ mcursor.pos < mcursor.len

\* PrintExplainResults has returned for the document
Explained == an.phase \in {"parse", "print", "done"}

\* the stage name PrintExplainResults can read: queryPlanner and winningPlan
\* are maps and stage is a string
StageOf(document) ==
  IF /\ document.queryPlanner.type = "map"
     /\ document.queryPlanner.winningPlan.type = "map"
     /\ document.queryPlanner.winningPlan.stage.type = "string"
    THEN {document.queryPlanner.winningPlan.stage.val}
    ELSE {}

\* C15: the message PrintExplainResults writes depends on the winning plan's
\* own stage string alone and on its exact value: COLLSCAN gives the
\* collection-scan warning, IXSCAN the index-scan message, FETCH the fetch
\* message, and any other string, another case or a nested stage gives none;
\* never two of them.
C15_ExactStageMatch ==
  Explained =>
    LET msgs == an.explained.messages
        stage == StageOf(an.doc)
    IN /\ Cardinality(msgs) <= 1
       /\ "collscan" \in msgs <=> stage = {"COLLSCAN"}
       /\ "ixscan" \in msgs <=> stage = {"IXSCAN"}
       /\ "fetch" \in msgs <=> stage = {"FETCH"}
       /\ an.explained.stage = stage

C15_Witness ==
  /\ Explained
  /\ StageOf(an.doc) = {"collscan"}
  /\ an.doc.queryPlanner.winningPlan.inputStage = "COLLSCAN"
  /\ an.explained.stage = {"collscan"}
  /\ an.explained.messages = {}

\* C16: for a document whose executionStats hold an integer
\* executionTimeMillis = t, the slow-query warning is written exactly when
\* t > 100.
C16_SlowWarningIffOver100 ==
  (/\ Explained
   /\ an.doc.executionStats.type = "map"
   /\ an.doc.executionStats.executionTimeMillis.type \in IntTypes)
    => (an.explained.slow <=> an.doc.executionStats.executionTimeMillis.val > 100)

\* the statistic is in the document, as an integer
HasInt(v) == v.type \in IntTypes

\* C17: when the execution statistics hold totalDocsExamined = d > 0 and
\* nReturned = n, PrintMetrics shows n / d as a percentage and warns of low
\* efficiency exactly when it is below 50; with d = 0 it shows no ratio.
C17_EfficiencyReported ==
  (/\ an.phase = "done"
   /\ an.doc.executionStats.type = "map"
   /\ HasInt(an.doc.executionStats.totalDocsExamined)
   /\ HasInt(an.doc.executionStats.nReturned))
    => LET d == an.doc.executionStats.totalDocsExamined.val
           n == an.doc.executionStats.nReturned.val
       IN IF d > 0
            THEN /\ an.printed.efficiency = {(n * 10000) \div d}
                 /\ an.printed.low <=> (n * 100 < 50 * d)
            ELSE /\ an.printed.efficiency = {}
                 /\ ~an.printed.low

\* C18: the over-examination warning is written exactly when the document
\* holds nReturned = n > 0 and totalDocsExamined = d > 2 * n, and the multiple
\* it shows, d divided by n, is then at least 2.
C18_OverExaminationWarning ==
  (Explained /\ an.doc.executionStats.type = "map") =>
    LET d == an.doc.executionStats.totalDocsExamined
        n == an.doc.executionStats.nReturned
    IN /\ an.explained.over <=>
            (HasInt(d) /\ HasInt(n) /\ n.val > 0 /\ d.val > n.val * 2)
       /\ an.explained.over =>
            (an.explained.ratio = d.val \div n.val /\ an.explained.ratio >= 2)

\* C19: PrintExplainResults returns normally whatever is absent or of another
\* type in the document, shows a section only if it is there, and writes a
\* warning or message only if the field it depends on is there.
C19_NeverPanics ==
  /\ an.phase # "panicked"
  /\ Explained =>
       LET es == an.doc.executionStats
           out == an.explained
       IN /\ ~out.panicked
          /\ out.statsShown <=> es.type = "map"
          /\ out.planShown <=> an.doc.queryPlanner.type = "map"
          /\ out.slow => (es.type = "map" /\ es.executionTimeMillis.type # "absent")
          /\ out.over => /\ es.type = "map"
                         /\ es.totalDocsExamined.type # "absent"
                         /\ es.nReturned.type # "absent"
          /\ out.messages # {} => StageOf(an.doc) # {}

C19_Witness ==
  /\ an.phase = "done"
  /\ an.doc.executionStats.type = "other"
  /\ an.doc.queryPlanner.type = "map"
  /\ an.doc.queryPlanner.winningPlan.type = "map"
  /\ an.doc.queryPlanner.winningPlan.stage.type = "other"
  /\ an.explained = [NoExplainOutput EXCEPT !.planShown = TRUE]

\* the statistics PrintMetrics was given and showed
ShownStats ==
  [executionTimeMillis |-> an.printed.time,
   totalDocsExamined |-> an.printed.examined,
   totalKeysExamined |-> an.printed.keys,
   nReturned |-> an.printed.returned]

StatNames == {"executionTimeMillis", "totalDocsExamined", "totalKeysExamined",
              "nReturned"}

\* C20: a statistic the document does not hold is not shown as 0 by
\* PrintMetrics, and no efficiency is computed from an absent nReturned.
C20_AbsentIsNotZero ==
  (an.phase = "done" /\ an.doc.executionStats.type = "map") =>
    /\ \A f \in StatNames :
         an.doc.executionStats[f].type = "absent" => 0 \notin ShownStats[f]
    /\ an.printed.efficiency # {} =>
         an.doc.executionStats.nReturned.type # "absent"

\* the true difference of the two samples fits the signed word
FitsInt64(d) == -Pow2(WordBits - 1) <= d /\ d < Pow2(WordBits - 1)

\* C21: whenever after - before fits the signed word, the reported delta is
\* exactly after - before: negative when the after-sample is the smaller one,
\* never replaced by 0.
C21_DeltaIsSignedDifference ==
  (mem.phase = "done" /\ FitsInt64(mem.after - mem.before)) =>
    /\ mem.reported = {mem.after - mem.before}
    /\ mem.after < mem.before => \A r \in mem.reported : r < 0

C21_Witness ==
  /\ mem.phase = "done"
  /\ mem.after < mem.before
  /\ FitsInt64(mem.after - mem.before)
  /\ mem.reported = {mem.after - mem.before}
  /\ Uint64Sub(mem.after, mem.before) > mem.before

\* C22: every run that completes its read has constructed exactly one metrics
\* record, whether or not the explain step succeeded and whatever the explain
\* document held.
C22_MetricsOncePerRun ==
  (pc = "done" /\ "memAfter" \in events) => Len(metrics) = 1

\* the offsets of the documents worker w has counted so far
CountedBy(w) ==
  {CursorOffset(w, chunkSize, k) : k \in (1..cursor[w].pos) \ decodeErrs[w]}

\* C23: in read_v4 worker w asks for skip = w * chunkSize and limit = chunkSize;
\* skips grow strictly with the worker id, the offset ranges of two workers are
\* disjoint, and no document is counted by two workers.
C23_ChunksDisjoint ==
  strategy = "read_v4" =>
    /\ \A c \in IssuedReads :
         \E w \in Dispatched : c.skip = {w * chunkSize} /\ c.limit = {chunkSize}
    /\ \A w \in Dispatched :
         /\ ReadCommand(strategy, w).skip = {w * chunkSize}
         /\ CountedBy(w) \subseteq (w * chunkSize)..((w + 1) * chunkSize - 1)
         /\ Cardinality(CountedBy(w)) = localCount[w]
    /\ \A v, w \in Dispatched :
         v < w =>
           /\ SkipOf(v, chunkSize) < SkipOf(w, chunkSize)
           /\ \A o \in 0..(MaxWorkers * MaxChunk + MaxChunk) :
                ~(o \in ChunkRange(v, chunkSize) /\ o \in ChunkRange(w, chunkSize))
           /\ CountedBy(v) \cap CountedBy(w) = {}

C23_Witness ==
  /\ strategy = "read_v4"
  /\ pc = "done"
  /\ numWorkers = 2
  /\ chunkSize = 2
  /\ \A w \in Dispatched : Cardinality(CountedBy(w)) = 2
  /\ recordsRead = 4

\* main is past the dispatch loop
LoopDone == pc \in {"wait", "memAfter", "report", "metrics", "done"}

\* worker w has returned
Returned(w) == wpc[w] = "done"

\* C24: in read_v4 every one of the numWorkers workers is dispatched; a worker
\* whose skip is at or past the count sends no aggregation, opens no cursor,
\* adds nothing to totalRead and logs nothing, yet signals the WaitGroup; a
\* worker whose skip is below the count sends exactly one aggregation.
C24_IdleWorkerOnlySignals ==
  strategy = "read_v4" =>
    /\ LoopDone => spawned = numWorkers /\ \A w \in Dispatched : wpc[w] # "unspawned"
    /\ \A w \in Workers \ Dispatched : wpc[w] = "unspawned"
    /\ \A w \in Dispatched :
         IF w * chunkSize >= totalCount
           THEN /\ requests[ChunkRequest(w)] = 0
                /\ cursor[w] = NoCursor
                /\ localCount[w] = 0
                /\ {a \in access : a[1] = WorkerActor(w)} \subseteq DoneAccess(w)
                /\ {l \in logged : l[1] # "explain_failed" /\ l[2] = w} = {}
                /\ Returned(w) => DoneAccess(w) \subseteq access
           ELSE /\ requests[ChunkRequest(w)] <= 1
                /\ wpc[w] \in {"next", "add", "finish", "done"} =>
                     requests[ChunkRequest(w)] = 1

C24_Witness ==
  /\ strategy = "read_v4"
  /\ pc = "done"
  /\ totalCount > 0
  /\ \E v, w \in Dispatched :
       /\ w * chunkSize >= totalCount
       /\ Returned(w)
       /\ DoneAccess(w) \subseteq access
       /\ v * chunkSize < totalCount
       /\ requests[ChunkRequest(v)] = 1
  /\ recordsRead = totalCount

\* C25: no request is sent again after it failed: a run sends the explain
\* command at most once, read_v4 sends its count exactly once and before the
\* first worker is dispatched, a single-threaded program sends its read at
\* most once, and each worker sends at most one aggregation.
C25_NoRequestRetried ==
  /\ requests[ExplainRequest] <= 1
  /\ requests[CountRequest] <= 1
  /\ requests[ReadRequest] <= 1
  /\ \A w \in Workers : requests[ChunkRequest(w)] <= 1
  /\ strategy = "read_v4" =>
       /\ (spawned > 0 \/ pc \in {"explain", "memBefore", "spawn"}) =>
            requests[CountRequest] = 1
       /\ requests[ReadRequest] = 0
  /\ strategy # "read_v4" =>
       /\ requests[CountRequest] = 0
       /\ \A w \in Workers : requests[ChunkRequest(w)] = 0
  /\ (pc = "crashed" /\ strategy # "read_v4") => requests[ReadRequest] = 1
  /\ <<"explain_failed">> \in logged => requests[ExplainRequest] = 1
  /\ \A w \in Workers : <<"worker_err", w>> \in logged => requests[ChunkRequest(w)] = 1

C25_Witness ==
  /\ strategy = "read_v4"
  /\ pc = "done"
  /\ <<"explain_failed">> \in logged
  /\ requests[ExplainRequest] = 1
  /\ requests[CountRequest] = 1
  /\ \E w \in Dispatched :
       /\ <<"worker_err", w>> \in logged
       /\ requests[ChunkRequest(w)] = 1

\* the workers that have been dispatched and have not returned
Running == {w \in Workers : wpc[w] \notin {"unspawned", "done"}}

\* C26: once read_v4 starts dispatching, with requests that return and finite
\* cursors, main eventually passes wg.Wait() and reports the total, every way
\* out of a worker having signalled the WaitGroup exactly once; and while a
\* worker has not returned main does not pass the barrier or report, however
\* long that lasts.
C26_BarrierEventuallyOpens ==
  /\ (pc = "spawn") ~> ("report" \in events /\ pc = "done")
  /\ [](wg = Cardinality(Running))
  /\ [](Running # {} => (pc \in {"spawn", "wait"} /\ "report" \notin events))

C26_Witness ==
  /\ strategy = "read_v4"
  /\ pc = "done"
  /\ "report" \in events
  /\ wg = 0
  /\ \E v, w \in Dispatched :
       /\ <<"worker_err", v>> \in logged
       /\ cursor[w].state = "closed"
       /\ <<WorkerActor(w), <<"wg">>, "sync">> \in access
       /\ <<WorkerActor(v), <<"wg">>, "sync">> \in access

\* the offsets counted by some worker
CountedByAny == UNION {CountedBy(w) : w \in Dispatched}

\* C27: a read_v4 run without worker errors on an unchanged collection reports
\* min(count, numWorkers * chunkSize); when numWorkers * chunkSize reaches the
\* count it reports the count exactly, every matching document having been
\* counted by exactly one worker, those of the last, partly filled chunk
\* included.
C27_ReportedIsMinOfCountAndCapacity ==
  (strategy = "read_v4" /\ "report" \in events /\ NoWorkerError) =>
    /\ recordsRead = Min(totalCount, numWorkers * chunkSize)
    /\ numWorkers * chunkSize >= totalCount =>
         /\ recordsRead = totalCount
         /\ totalCount = store.paid
         /\ \A o \in 0..(totalCount - 1) :
              Cardinality({w \in Dispatched : o \in CountedBy(w)}) = 1
         /\ CountedByAny = 0..(totalCount - 1)

C27_Witness ==
  /\ strategy = "read_v4"
  /\ pc = "done"
  /\ NoWorkerError
  /\ numWorkers = 2
  /\ chunkSize = 2
  /\ totalCount = 3
  /\ recordsRead = 3
  /\ localCount = [w \in Workers |-> IF w = 0 THEN 2 ELSE IF w = 1 THEN 1 ELSE 0]

\* the statistic is in the document as an integer that is not an int64
OtherInt(v) == v.type \in IntTypes \ {"int64"}

\* the ExecutionStats fields of the metrics built from the document, if any
StatFields ==
  IF an.metrics = <<>> \/ an.metrics[1].ExecutionStats = <<>>
    THEN {}
    ELSE {[executionTimeMillis |-> an.metrics[1].ExecutionStats[1].ExecutionTimeMillis,
           totalDocsExamined |-> an.metrics[1].ExecutionStats[1].TotalDocsExamined,
           totalKeysExamined |-> an.metrics[1].ExecutionStats[1].TotalKeysExamined,
           nReturned |-> an.metrics[1].ExecutionStats[1].NReturned]}

BothRecognised ==
  /\ an.doc.executionStats.type = "map"
  /\ an.doc.executionStats.totalDocsExamined.type = "int64"
  /\ an.doc.executionStats.nReturned.type = "int64"

\* C29: for a document whose totalDocsExamined = d and nReturned = n are both
\* recognised, with n > 0 the over-examination warning of PrintExplainResults
\* and the low-efficiency warning of PrintMetrics are written together or not
\* at all; the two differ exactly when n = 0 and d > 0, where only the
\* low-efficiency warning is written.
C29_WarningsAgree ==
  (an.phase = "done" /\ BothRecognised) =>
    LET d == an.doc.executionStats.totalDocsExamined.val
        n == an.doc.executionStats.nReturned.val
    IN /\ n > 0 => (an.explained.over <=> an.printed.low)
       /\ (an.explained.over # an.printed.low) <=> (n = 0 /\ d > 0)
       /\ (n = 0 /\ d > 0) => (an.printed.low /\ ~an.explained.over)

C29_Witness ==
  /\ an.phase = "done"
  /\ BothRecognised
  /\ an.doc.executionStats.nReturned.val > 0
  /\ an.explained.over
  /\ an.printed.low

====
